---- MODULE Spec2Model ----
(***************************************************************************)
(* The account-recovery workflow of the Asaan-Form web client: the auth    *)
(* slice of the redux store (authSlice.js), its localStorage mirror, the   *)
(* three recovery screens (ForgotPassword, VerifyOTP, ResetPassword) with  *)
(* their redirect effects, the login / signup screens that share the       *)
(* loading flag, and the identity service as a nondeterministic responder. *)
(*                                                                         *)
(* Strings the code inspects (emails, codes, passwords) are sequences of   *)
(* one-character strings, so that includes('@'), length and the digit      *)
(* test are computed and not assumed.  A screen is rendered as soon as it  *)
(* is mounted; its useEffect callbacks run afterwards, as a step of their  *)
(* own (RunEffects), so a control of a rendered screen can be used before  *)
(* the screen's redirect effect has run.                                   *)
(***************************************************************************)
EXTENDS Integers, Sequences, FiniteSets, TLC

\* ------------------------------------------------------------------ bounds
MaxInflight == 2
MaxTimers == 1

\* ------------------------------------------------------------- JS values
\* null of a string-valued slot that holds opaque strings (token, error...)
Null == "null"
\* null of a slot that holds character sequences (emails)
NullStr == <<"null">>

Digit == {"0", "1", "2", "3", "4", "5", "6", "7", "8", "9"}

\* !!v for a string-or-null value
Truthy(v) == v # NullStr /\ v # <<>>
\* !!v for an opaque string-or-null value
TruthyTok(v) == v # Null /\ v # ""
\* s.includes(c)
Includes(s, c) == \E i \in 1..Len(s) : s[i] = c
\* /^\d{6}$/.test(s)
SixDigits(s) == Len(s) = 6 /\ \A i \in 1..Len(s) : s[i] \in Digit
\* /^\d+$/.test(s)
AllDigits(s) == Len(s) >= 1 /\ \A i \in 1..Len(s) : s[i] \in Digit
\* localStorage.getItem(k) || null
OrNullTok(v) == IF TruthyTok(v) THEN v ELSE Null

RECURSIVE Join(_)
\* otp.join('')
Join(boxes) == IF boxes = <<>> THEN <<>> ELSE Head(boxes) \o Join(Tail(boxes))

\* ---------------------------------------------------------------- inputs
EmailA == <<"a", "@", "b">>
EmailB == <<"c", "@", "d">>
EmailNoAt == <<"a", "b">>
EmailEmpty == <<>>
EmailInputs == {EmailA, EmailB, EmailNoAt, EmailEmpty}

\* what the six one-character boxes of the code field can hold: handleOtpChange
\* accepts '' or digits only (maxLength 1), handlePaste fills six digits
EmptyOtp == [i \in 1..6 |-> <<>>]
\* what is typed into the six boxes, box by box
KeystrokeRuns ==
  { [i \in 1..6 |-> <<"7">>],
    [i \in 1..6 |-> IF i <= 2 THEN <<"7">> ELSE <<>>],
    [i \in 1..6 |-> IF i = 6 THEN <<"x">> ELSE <<"7">>],
    [i \in 1..6 |-> <<>>] }
\* what is pasted into the code field
PasteInputs == {<<"1", "2", "3", "4", "5", "6">>, <<"1", "2">>}

PwEmpty == <<>>
PwShort == <<"a", "b", "c">>
PwGood == <<"s", "e", "c", "r", "e", "t", "1">>
PwOther == <<"s", "e", "c", "r", "e", "t", "2">>
\* what is typed into the new-password and confirm-password fields
PasswordPairs == {<<PwGood, PwGood>>, <<PwGood, PwOther>>, <<PwShort, PwShort>>,
                  <<PwGood, PwEmpty>>, <<PwEmpty, PwEmpty>>}

\* the token the identity service hands out when it verifies a code for an
\* email: an opaque string to the client, telling the tokens of two emails apart
TokenFor(e) ==
  CASE e = EmailA -> "token for a@b"
    [] e = EmailB -> "token for c@d"
    [] OTHER -> "token for another email"
\* message of a 4xx response; Null when the response carries none
ServerMessages == {Null, "server says no"}
Users == {"u1"}

Routes == {"/", "/login", "/signup", "/forgot-password", "/verify-otp",
           "/reset-password", "/profile"}
NoRedirect == "none"

\* ----------------------------------------------------------------- state
VARIABLES
  \* the auth slice (authSlice.js initialState)
  isAuthenticated, user, token, loading, error, isLoading,
  resetEmail, resetStep, resetToken,
  \* window.localStorage, by key
  localStorage,
  \* the router and the mounted screen
  location, effectsPending,
  \* component state: ForgotPassword.email, VerifyOTP.otp, the two password
  \* fields of ResetPassword, ResetPassword.success
  fp_email, otp, rp_fields, rp_success,
  \* requests sent to the identity service and not yet answered
  inflight,
  \* armed setTimeout callbacks of ResetPassword.handleSubmit
  timers,
  \* history: the last step taken, with the request it was about and the
  \* message it gave to setLocalError
  last

storeVars == <<isAuthenticated, user, token, loading, error, isLoading,
               resetEmail, resetStep, resetToken>>
authVars == <<isAuthenticated, user, token, isLoading>>
resetVars == <<resetEmail, resetStep, resetToken>>
uiVars == <<location, effectsPending, fp_email, otp, rp_fields, rp_success>>
vars == <<isAuthenticated, user, token, loading, error, isLoading,
          resetEmail, resetStep, resetToken, localStorage,
          location, effectsPending, fp_email, otp, rp_fields, rp_success,
          inflight, timers, last>>

StorageKeys == {"asaan_reset_email", "asaan_reset_token", "asaan_auth",
                "asaan_user", "asaan_token"}
\* getItem of an absent key is null
AbsentValue(k) == IF k = "asaan_reset_email" THEN NullStr ELSE Null
EmptyStorage == [k \in StorageKeys |-> AbsentValue(k)]
SetItem(ls, k, v) == [ls EXCEPT ![k] = v]
RemoveItem(ls, k) == [ls EXCEPT ![k] = AbsentValue(k)]

\* JSON.stringify(state.user) and JSON.parse of it
JsonOf(u) == "json:" \o u
IsJson(s) == \E u \in Users : s = JsonOf(u)
ParseJson(s) == CHOOSE u \in Users : s = JsonOf(u)

NoRequest == [kind |-> "none", email |-> NullStr, otp |-> <<>>,
              newPassword |-> <<>>, resetToken |-> Null,
              stepAt |-> Null, alive |-> FALSE]
Request(kind, e, code, pw, tok) ==
  [kind |-> kind, email |-> e, otp |-> code, newPassword |-> pw,
   resetToken |-> tok, stepAt |-> resetStep, alive |-> TRUE]

Last(op, req) == [op |-> op, req |-> req, localError |-> ""]
Refused(op, req, msg) == [op |-> op, req |-> req, localError |-> msg]


\* ------------------------------------------------------ the store module
\* initialState: the object literal names resetEmail twice and the later
\* entry (null) is the one that counts
InitialResetEmail(ls) == NullStr
InitialResetToken(ls) == OrNullTok(ls["asaan_reset_token"])

\* loadFromStorage on the freshly built initialState: the flag is set before
\* JSON.parse runs, and a throwing parse leaves it set
LoadedIsAuthenticated(ls) ==
  ls["asaan_auth"] = "true" /\ TruthyTok(ls["asaan_user"])
LoadedUser(ls) ==
  IF LoadedIsAuthenticated(ls) /\ IsJson(ls["asaan_user"])
  THEN ParseJson(ls["asaan_user"]) ELSE Null
LoadedToken(ls) ==
  IF LoadedIsAuthenticated(ls) /\ IsJson(ls["asaan_user"])
  THEN ls["asaan_token"] ELSE Null

\* the store right after the store module has run: initialState, then the
\* loadFromStorage it dispatches at import
StoreCreated(ls) ==
  /\ isAuthenticated' = LoadedIsAuthenticated(ls)
  /\ user' = LoadedUser(ls)
  /\ token' = LoadedToken(ls)
  /\ loading' = FALSE
  /\ error' = Null
  /\ isLoading' = FALSE
  /\ resetEmail' = InitialResetEmail(ls)
  /\ resetStep' = Null
  /\ resetToken' = InitialResetToken(ls)

Init ==
  /\ localStorage = EmptyStorage
  /\ isAuthenticated = LoadedIsAuthenticated(EmptyStorage)
  /\ user = LoadedUser(EmptyStorage)
  /\ token = LoadedToken(EmptyStorage)
  /\ loading = FALSE
  /\ error = Null
  /\ isLoading = FALSE
  /\ resetEmail = InitialResetEmail(EmptyStorage)
  /\ resetStep = Null
  /\ resetToken = InitialResetToken(EmptyStorage)
  /\ location \in Routes
  /\ effectsPending = TRUE
  /\ fp_email = <<>>
  /\ otp = EmptyOtp
  /\ rp_fields = <<PwEmpty, PwEmpty>>
  /\ rp_success = FALSE
  /\ inflight = <<>>
  /\ timers = 0
  /\ last = Last("init", NoRequest)

\* ------------------------------------------------------------ the router
\* a component that is unmounted loses its state, and a request whose
\* handler belonged to it can no longer set that state
Orphaned(reqs) == [i \in DOMAIN reqs |-> [reqs[i] EXCEPT !.alive = FALSE]]

\* navigate(to) seen from the component tree: a new screen is mounted with
\* fresh component state, the same route keeps the mounted screen
Mount(to, reqs) ==
  /\ location' = to
  /\ IF to = location
     THEN /\ UNCHANGED <<effectsPending, fp_email, otp, rp_fields, rp_success>>
          /\ inflight' = reqs
     ELSE /\ effectsPending' = TRUE
          /\ fp_email' = <<>>
          /\ otp' = EmptyOtp
          /\ rp_fields' = <<PwEmpty, PwEmpty>>
          /\ rp_success' = FALSE
          /\ inflight' = Orphaned(reqs)

\* a route that always renders its page
ProtectedRoute_open == "children"
\* what ProtectedRoute returns: the spinner while the store is loading, a
\* <Navigate to="/login"> when not authenticated, otherwise the page
ProtectedRoute ==
  IF isLoading THEN "spinner"
  ELSE IF ~isAuthenticated THEN "/login"
  ELSE "children"

\* the redirect the effects of the screen at loc ask for in the current store
\* state
RedirectFrom(loc) ==
  CASE loc = "/forgot-password" ->
         IF resetStep = "verify" THEN "/verify-otp" ELSE NoRedirect
    [] loc = "/verify-otp" ->
         IF resetStep = "reset" THEN "/reset-password"
         ELSE IF ~Truthy(resetEmail) THEN "/forgot-password"
         ELSE NoRedirect
    [] loc = "/reset-password" ->
         IF ~Truthy(resetEmail) \/ resetStep # "reset" \/ ~TruthyTok(resetToken)
         THEN "/forgot-password" ELSE NoRedirect
    [] loc = "/login" ->
         IF isAuthenticated THEN "/profile" ELSE NoRedirect
    [] loc = "/signup" ->
         IF isAuthenticated THEN "/" ELSE NoRedirect
    [] loc = "/profile" ->
         IF ProtectedRoute = "/login" THEN "/login" ELSE NoRedirect
    [] OTHER -> NoRedirect

\* the redirect the mounted screen's effects ask for
RedirectTarget == RedirectFrom(location)

\* the effects of the last render have run and asked for no redirect.  React
\* runs the effects of a render before it renders again, and a keystroke
\* renders: a field of a screen can be filled only when this holds
Settled == ~effectsPending /\ RedirectTarget = NoRedirect

\* screens whose mount effect dispatches clearError()
ClearsErrorOnMount(loc) ==
  loc \in {"/forgot-password", "/verify-otp", "/reset-password", "/login", "/signup"}

\* the useEffect callbacks of the mounted screen: the mount effects once,
\* the redirect effects whenever the store values they watch ask for one
RunEffects ==
  /\ effectsPending \/ RedirectTarget # NoRedirect
  /\ error' = IF effectsPending /\ ClearsErrorOnMount(location) THEN Null ELSE error
  /\ IF RedirectTarget # NoRedirect
     THEN Mount(RedirectTarget, inflight)
     ELSE /\ effectsPending' = FALSE
          /\ UNCHANGED <<location, fp_email, otp, rp_fields, rp_success, inflight>>
  /\ last' = Last("RunEffects", NoRequest)
  /\ UNCHANGED <<authVars, loading, resetVars, localStorage, timers>>

\* a Link or navigate() button of the mounted screen, or a Navbar link
LinkTargets ==
  {"/", "/login", "/signup"}
    \cup (IF location = "/login" THEN {"/forgot-password"} ELSE {})
    \cup (IF location = "/verify-otp" THEN {"/forgot-password"} ELSE {})

FollowLink(to) ==
  /\ to \in LinkTargets
  /\ to # location
  /\ Mount(to, inflight)
  /\ last' = Last("FollowLink", NoRequest)
  /\ UNCHANGED <<storeVars, localStorage, timers>>

\* the browser's back / forward buttons: the router shows an entry of the
\* session history without loading the page; any route can be such an entry
HistoryGo(to) ==
  /\ to # location
  /\ Mount(to, inflight)
  /\ last' = Last("HistoryGo", NoRequest)
  /\ UNCHANGED <<storeVars, localStorage, timers>>

\* the page is loaded afresh at a route: scripts, timers and pending requests
\* of the old page are gone, the store is rebuilt from localStorage
Reload(url) ==
  /\ StoreCreated(localStorage)
  /\ location' = url
  /\ effectsPending' = TRUE
  /\ fp_email' = <<>>
  /\ otp' = EmptyOtp
  /\ rp_fields' = <<PwEmpty, PwEmpty>>
  /\ rp_success' = FALSE
  /\ inflight' = <<>>
  /\ timers' = 0
  /\ last' = Last("Reload", NoRequest)
  /\ UNCHANGED <<localStorage>>


\* --------------------------------------------------- reducers of the slice
\* each is the state change of one case of the slice; the variables it does
\* not name are left to the action that uses it

logout ==
  /\ isAuthenticated' = FALSE
  /\ user' = Null
  /\ token' = Null
  /\ error' = Null
  /\ resetEmail' = NullStr
  /\ resetStep' = Null
  /\ isLoading' = FALSE
  /\ resetToken' = Null
  /\ localStorage' =
       RemoveItem(RemoveItem(RemoveItem(RemoveItem(localStorage,
         "asaan_auth"), "asaan_user"), "asaan_token"), "asaan_reset_email")
  /\ UNCHANGED loading

\* the reducer without its localStorage.removeItem
clearResetState_keeps_storage ==
  /\ resetEmail' = NullStr
  /\ resetStep' = Null
  /\ error' = Null
  /\ UNCHANGED <<authVars, loading, resetToken, localStorage>>

clearResetState ==
  /\ resetEmail' = NullStr
  /\ resetStep' = Null
  /\ error' = Null
  /\ localStorage' = RemoveItem(localStorage, "asaan_reset_email")
  /\ UNCHANGED <<authVars, loading, resetToken>>

\* loginUser.pending, signupUser.pending, forgotPassword.pending,
\* verifyOTP.pending and resetPassword.pending are the same reducer
pending ==
  /\ loading' = TRUE
  /\ error' = Null
  /\ UNCHANGED <<authVars, resetVars, localStorage>>

\* loginUser.rejected ... resetPassword.rejected are the same reducer
\* a rejected case that also drops the token
rejected_forgets(payload) ==
  /\ loading' = FALSE
  /\ error' = payload
  /\ resetToken' = Null
  /\ UNCHANGED <<authVars, resetEmail, resetStep, localStorage>>

rejected(payload) ==
  /\ loading' = FALSE
  /\ error' = payload
  /\ UNCHANGED <<authVars, resetVars, localStorage>>

loginUser_fulfilled(u, tok) ==
  /\ isAuthenticated' = TRUE
  /\ user' = u
  /\ loading' = FALSE
  /\ resetEmail' = NullStr
  /\ resetStep' = Null
  /\ localStorage' =
       SetItem(SetItem(SetItem(localStorage,
         "asaan_auth", "true"), "asaan_user", JsonOf(u)), "asaan_token", tok)
  /\ UNCHANGED <<token, error, isLoading, resetToken>>

signupUser_fulfilled(u, tok) ==
  /\ isAuthenticated' = TRUE
  /\ user' = u
  /\ loading' = FALSE
  /\ localStorage' =
       SetItem(SetItem(SetItem(localStorage,
         "asaan_auth", "true"), "asaan_user", JsonOf(u)), "asaan_token", tok)
  /\ UNCHANGED <<token, error, isLoading, resetVars>>

\* the fulfilled case without its localStorage.setItem
forgotPassword_fulfilled_unsaved(payloadEmail) ==
  /\ loading' = FALSE
  /\ resetEmail' = payloadEmail
  /\ resetStep' = "verify"
  /\ error' = Null
  /\ UNCHANGED <<authVars, resetToken, localStorage>>

\* payload is { email, ...response.data } of the thunk; the service's body
\* ({accepted: true}) carries no email of its own
\* a fulfilled case that keeps a verified session verified
forgotPassword_fulfilled_keeps_step(payloadEmail) ==
  /\ loading' = FALSE
  /\ resetEmail' = payloadEmail
  /\ resetStep' = IF resetStep = "reset" THEN "reset" ELSE "verify"
  /\ error' = Null
  /\ localStorage' = SetItem(localStorage, "asaan_reset_email", payloadEmail)
  /\ UNCHANGED <<authVars, resetToken>>

forgotPassword_fulfilled(payloadEmail) ==
  /\ loading' = FALSE
  /\ resetEmail' = payloadEmail
  /\ resetStep' = "verify"
  /\ error' = Null
  /\ localStorage' = SetItem(localStorage, "asaan_reset_email", payloadEmail)
  /\ UNCHANGED <<authVars, resetToken>>

\* a fulfilled case that drops the answer when the session has no email
verifyOTP_fulfilled_guarded(payloadToken) ==
  /\ loading' = FALSE
  /\ resetStep' = IF Truthy(resetEmail) THEN "reset" ELSE resetStep
  /\ error' = IF Truthy(resetEmail) THEN Null ELSE error
  /\ resetToken' = IF Truthy(resetEmail) THEN payloadToken ELSE resetToken
  /\ UNCHANGED <<authVars, resetEmail, localStorage>>

verifyOTP_fulfilled(payloadToken) ==
  /\ loading' = FALSE
  /\ resetStep' = "reset"
  /\ error' = Null
  /\ resetToken' = payloadToken
  /\ UNCHANGED <<authVars, resetEmail, localStorage>>

\* the fulfilled case without the line that drops the token
resetPassword_fulfilled_keeps_token ==
  /\ loading' = FALSE
  /\ resetEmail' = NullStr
  /\ resetStep' = Null
  /\ error' = Null
  /\ localStorage' = RemoveItem(localStorage, "asaan_reset_email")
  /\ UNCHANGED <<authVars, resetToken>>

resetPassword_fulfilled ==
  /\ loading' = FALSE
  /\ resetEmail' = NullStr
  /\ resetStep' = Null
  /\ resetToken' = Null
  /\ error' = Null
  /\ localStorage' = RemoveItem(localStorage, "asaan_reset_email")
  /\ UNCHANGED authVars

\* rejectWithValue(error.response?.data?.message || fallback)
DefaultMessage(kind) ==
  CASE kind = "loginUser" -> "Login failed"
    [] kind = "signupUser" -> "Signup failed"
    [] kind = "forgotPassword" -> "Failed to send OTP"
    [] kind = "verifyOTP" -> "Invalid OTP"
    [] kind = "resetPassword" -> "Password reset failed"
RejectValue(kind, message) ==
  IF TruthyTok(message) THEN message ELSE DefaultMessage(kind)

\* dispatch(thunk(arg)): the pending case runs and the request leaves
Dispatch(req) ==
  /\ Len(inflight) < MaxInflight
  /\ pending
  /\ inflight' = Append(inflight, req)


\* ------------------------------------------------------- ForgotPassword.jsx
\* a handler that returns after setLocalError(msg): nothing is dispatched
Refuse(op, req, msg) ==
  /\ last' = Refused(op, req, msg)
  /\ UNCHANGED <<storeVars, localStorage, inflight>>

\* the request form is rendered unless resetStep === 'verify', which renders
\* the "Check Your Email" card instead
FormShown == location = "/forgot-password" /\ resetStep # "verify"
CardShown == location = "/forgot-password" /\ resetStep = "verify"

\* disabled={loading} of the email input, the submit button and the resend button
fp_input_disabled == loading
fp_submit_disabled == loading
\* the resend button left enabled while a call is pending
fp_resend_never_disabled == FALSE
fp_resend_disabled == loading

\* onChange of the email input: setEmail(e.target.value)
ForgotPassword_setEmail(e) ==
  /\ FormShown
  /\ Settled
  /\ ~fp_input_disabled
  /\ e # fp_email
  /\ fp_email' = e
  /\ last' = Last("ForgotPassword.setEmail", NoRequest)
  /\ UNCHANGED <<storeVars, localStorage, location, effectsPending, otp,
                 rp_fields, rp_success, inflight, timers>>

\* the two local checks of handleSubmit
fp_emailMissing(e) == e = <<>>
fp_emailInvalid(e) == ~Includes(e, "@")

ForgotPassword_handleSubmit ==
  /\ FormShown
  /\ ~fp_submit_disabled
  /\ LET req == Request("forgotPassword", fp_email, <<>>, <<>>, Null)
         op == "ForgotPassword.handleSubmit"
     IN  IF fp_emailMissing(fp_email)
         THEN Refuse(op, req, "Please enter your email address")
         ELSE IF fp_emailInvalid(fp_email)
         THEN Refuse(op, req, "Please enter a valid email address")
         ELSE /\ Dispatch(req)
              /\ last' = Last(op, req)
  /\ UNCHANGED <<uiVars, timers>>

\* "Enter Verification Code": localStorage.setItem(..., email); navigate
ForgotPassword_EnterVerificationCode ==
  /\ CardShown
  /\ localStorage' = SetItem(localStorage, "asaan_reset_email", fp_email)
  /\ Mount("/verify-otp", inflight)
  /\ last' = Last("ForgotPassword.EnterVerificationCode", NoRequest)
  /\ UNCHANGED <<storeVars, timers>>

\* "Use Different Email": dispatch(clearResetState())
ForgotPassword_UseDifferentEmail ==
  /\ CardShown
  /\ clearResetState
  /\ last' = Last("ForgotPassword.UseDifferentEmail", NoRequest)
  /\ UNCHANGED <<uiVars, inflight, timers>>

\* "Resend Code": dispatch(forgotPassword({ email })) with the component's email
ForgotPassword_ResendCode ==
  /\ CardShown
  /\ ~fp_resend_disabled
  /\ LET req == Request("forgotPassword", fp_email, <<>>, <<>>, Null)
     IN  /\ Dispatch(req)
         /\ last' = Last("ForgotPassword.ResendCode", req)
  /\ UNCHANGED <<uiVars, timers>>

\* ------------------------------------------------------------ VerifyOTP.jsx
otp_input_disabled == loading
otp_submit_disabled == loading
\* the verify screen's resend button left enabled while a call is pending
otp_resend_never_disabled == FALSE
otp_resend_disabled == loading

\* handleOtpChange(index, value): only '' or digits are taken
handleOtpChange(boxes, index, value) ==
  IF value # <<>> /\ ~AllDigits(value) THEN boxes
  ELSE [boxes EXCEPT ![index] = value]

\* handlePaste: six digits fill the six boxes, anything else is ignored
handlePaste(boxes, text) ==
  IF SixDigits(text) THEN [i \in 1..6 |-> <<text[i]>>] ELSE boxes

RECURSIVE TypeFrom(_, _, _)
\* the boxes after keys[index..6] went through handleOtpChange
TypeFrom(boxes, keys, index) ==
  IF index > 6 THEN boxes
  ELSE TypeFrom(handleOtpChange(boxes, index, keys[index]), keys, index + 1)

\* onChange of the six boxes, one run of keystrokes at a time
VerifyOTP_handleOtpChange(keys) ==
  /\ location = "/verify-otp"
  /\ Settled
  /\ ~otp_input_disabled
  /\ otp' = TypeFrom(EmptyOtp, keys, 1)
  /\ otp' # otp
  /\ last' = Last("VerifyOTP.handleOtpChange", NoRequest)
  /\ UNCHANGED <<storeVars, localStorage, location, effectsPending, fp_email,
                 rp_fields, rp_success, inflight, timers>>

\* onPaste of a box
VerifyOTP_handlePaste(text) ==
  /\ location = "/verify-otp"
  /\ Settled
  /\ ~otp_input_disabled
  /\ otp' = handlePaste(otp, text)
  /\ otp' # otp
  /\ last' = Last("VerifyOTP.handlePaste", NoRequest)
  /\ UNCHANGED <<storeVars, localStorage, location, effectsPending, fp_email,
                 rp_fields, rp_success, inflight, timers>>

\* the two local checks of handleSubmit on otp.join('')
otp_incomplete(code) == Len(code) # 6
otp_notNumeric(code) == ~SixDigits(code)

\* a validation that only asks for some code
otp_localError_lax(code) ==
  IF code = <<>> THEN "Please enter the complete 6-digit code" ELSE ""

\* what handleSubmit gives to setLocalError before it returns; '' when the
\* code passes both checks
otp_localError(code) ==
  IF otp_incomplete(code) THEN "Please enter the complete 6-digit code"
  ELSE IF otp_notNumeric(code) THEN "OTP must contain only numbers"
  ELSE ""

\* resetEmail || savedEmail, savedEmail being the persisted key
emailToUse == IF Truthy(resetEmail) THEN resetEmail
              ELSE localStorage["asaan_reset_email"]

VerifyOTP_handleSubmit ==
  /\ location = "/verify-otp"
  /\ ~otp_submit_disabled
  /\ LET req == Request("verifyOTP", emailToUse, Join(otp), <<>>, Null)
         op == "VerifyOTP.handleSubmit"
     IN  IF otp_localError(Join(otp)) # ""
         THEN /\ Refuse(op, req, otp_localError(Join(otp)))
              /\ UNCHANGED uiVars
         ELSE IF ~Truthy(emailToUse)
         THEN /\ last' = Refused(op, req, "Email not found. Please restart the process.")
              /\ UNCHANGED <<storeVars, localStorage>>
              /\ Mount("/forgot-password", inflight)
         ELSE /\ Dispatch(req)
              /\ last' = Last(op, req)
              /\ UNCHANGED uiVars
  /\ UNCHANGED timers

\* handleResend: if (resetEmail) dispatch(forgotPassword({ email: resetEmail }))
VerifyOTP_handleResend ==
  /\ location = "/verify-otp"
  /\ ~otp_resend_disabled
  /\ LET req == Request("forgotPassword", resetEmail, <<>>, <<>>, Null)
     IN  /\ IF Truthy(resetEmail)
            THEN Dispatch(req)
            ELSE UNCHANGED <<storeVars, localStorage, inflight>>
         /\ last' = Last("VerifyOTP.handleResend", req)
  /\ UNCHANGED <<uiVars, timers>>

\* -------------------------------------------------------- ResetPassword.jsx
rp_input_disabled == loading
rp_submit_disabled == loading

\* the local checks of handleSubmit
rp_fieldMissing(pw, cpw) == pw = <<>> \/ cpw = <<>>
rp_tooShort(pw) == Len(pw) < 6
\* the confirmation is never compared
rp_mismatch_never(pw, cpw) == FALSE
rp_mismatch(pw, cpw) == pw # cpw

\* armed and about-to-be-armed completion timers
TimersOwed ==
  timers + Cardinality({i \in DOMAIN inflight : inflight[i].kind = "resetPassword"})

\* onChange of the two password fields
ResetPassword_setPasswords(pair) ==
  /\ location = "/reset-password"
  /\ ~rp_success
  /\ Settled
  /\ ~rp_input_disabled
  /\ pair # rp_fields
  /\ rp_fields' = pair
  /\ last' = Last("ResetPassword.setPasswords", NoRequest)
  /\ UNCHANGED <<storeVars, localStorage, location, effectsPending, fp_email,
                 otp, rp_success, inflight, timers>>

\* the form is rendered unless the component's success flag is set
ResetPassword_handleSubmit ==
  /\ location = "/reset-password"
  /\ ~rp_success
  /\ ~rp_submit_disabled
  /\ LET newPassword == rp_fields[1]
         confirmPassword == rp_fields[2]
         req == Request("resetPassword", resetEmail, <<>>, newPassword, resetToken)
         op == "ResetPassword.handleSubmit"
     IN  IF rp_fieldMissing(newPassword, confirmPassword)
         THEN Refuse(op, req, "Please fill in both password fields")
         ELSE IF rp_tooShort(newPassword)
         THEN Refuse(op, req, "Password must be at least 6 characters")
         ELSE IF rp_mismatch(newPassword, confirmPassword)
         THEN Refuse(op, req, "Passwords do not match")
         ELSE /\ TimersOwed < MaxTimers
              /\ Dispatch(req)
              /\ last' = Last(op, req)
  /\ UNCHANGED <<uiVars, timers>>

\* "Go to Login Now" of the success card: clearResetState(); navigate('/login')
ResetPassword_GoToLoginNow ==
  /\ location = "/reset-password"
  /\ rp_success
  /\ clearResetState
  /\ Mount("/login", inflight)
  /\ last' = Last("ResetPassword.GoToLoginNow", NoRequest)
  /\ UNCHANGED timers

\* the setTimeout callback armed by a successful handleSubmit
ResetPassword_timeout ==
  /\ timers > 0
  /\ timers' = timers - 1
  /\ clearResetState
  /\ Mount("/login", inflight)
  /\ last' = Last("ResetPassword.timeout", NoRequest)

\* ------------------------------------------------------- Login / Signup
login_submit_disabled == loading
signup_submit_disabled == loading

Login_handleSubmit(e, pw) ==
  /\ location = "/login"
  /\ ~login_submit_disabled
  /\ LET req == Request("loginUser", e, <<>>, <<>>, Null)
         op == "Login.handleSubmit"
     IN  IF e = <<>> \/ pw = <<>>
         THEN Refuse(op, req, "Please fill in all fields")
         ELSE IF ~Includes(e, "@")
         THEN Refuse(op, req, "Please enter a valid email address")
         ELSE IF Len(pw) < 6
         THEN Refuse(op, req, "Password must be at least 6 characters")
         ELSE /\ Dispatch(req)
              /\ last' = Last(op, req)
  /\ UNCHANGED <<uiVars, timers>>

Signup_handleSubmit(e, pw, cpw) ==
  /\ location = "/signup"
  /\ ~signup_submit_disabled
  /\ LET req == Request("signupUser", e, <<>>, <<>>, Null)
         op == "Signup.handleSubmit"
     IN  IF e = <<>> \/ pw = <<>> \/ cpw = <<>>
         THEN Refuse(op, req, "Please fill in all fields")
         ELSE IF ~Includes(e, "@")
         THEN Refuse(op, req, "Please enter a valid email address")
         ELSE IF pw # cpw
         THEN Refuse(op, req, "Passwords do not match")
         ELSE IF Len(pw) < 6
         THEN Refuse(op, req, "Password must be at least 6 characters")
         ELSE /\ Dispatch(req)
              /\ last' = Last(op, req)
  /\ UNCHANGED <<uiVars, timers>>

\* the logout action of the slice
Logout ==
  /\ isAuthenticated
  /\ logout
  /\ last' = Last("logout", NoRequest)
  /\ UNCHANGED <<uiVars, inflight, timers>>

\* ------------------------------------------- answers of the identity service
Remove(reqs, i) == SubSeq(reqs, 1, i - 1) \o SubSeq(reqs, i + 1, Len(reqs))

\* a 4xx answer to request i: the thunk's catch branch, then the rejected case
Rejected(i, message) ==
  /\ i \in DOMAIN inflight
  /\ rejected(RejectValue(inflight[i].kind, message))
  /\ inflight' = Remove(inflight, i)
  /\ last' = Last(inflight[i].kind \o ".rejected", inflight[i])
  /\ UNCHANGED <<uiVars, timers>>

ForgotPasswordFulfilled(i) ==
  /\ i \in DOMAIN inflight
  /\ inflight[i].kind = "forgotPassword"
  /\ forgotPassword_fulfilled(inflight[i].email)
  /\ inflight' = Remove(inflight, i)
  /\ last' = Last("forgotPassword.fulfilled", inflight[i])
  /\ UNCHANGED <<uiVars, timers>>

VerifyOTPFulfilled(i) ==
  /\ i \in DOMAIN inflight
  /\ inflight[i].kind = "verifyOTP"
  /\ verifyOTP_fulfilled(TokenFor(inflight[i].email))
  /\ inflight' = Remove(inflight, i)
  /\ last' = Last("verifyOTP.fulfilled", inflight[i])
  /\ UNCHANGED <<uiVars, timers>>

\* the fulfilled case, then the rest of ResetPassword.handleSubmit:
\* setSuccess(true) on the component if it is still mounted, and the timer
ResetPasswordFulfilled(i) ==
  /\ i \in DOMAIN inflight
  /\ inflight[i].kind = "resetPassword"
  /\ resetPassword_fulfilled
  /\ inflight' = Remove(inflight, i)
  /\ rp_success' = (rp_success \/ inflight[i].alive)
  /\ timers' = timers + 1
  /\ last' = Last("resetPassword.fulfilled", inflight[i])
  /\ UNCHANGED <<location, effectsPending, fp_email, otp, rp_fields>>

\* the fulfilled case, then the rest of Login.handleSubmit: navigate(from)
LoginUserFulfilled(i, u, tok) ==
  /\ i \in DOMAIN inflight
  /\ inflight[i].kind = "loginUser"
  /\ loginUser_fulfilled(u, tok)
  /\ Mount("/profile", Remove(inflight, i))
  /\ last' = Last("loginUser.fulfilled", inflight[i])
  /\ UNCHANGED timers

\* the fulfilled case, then the rest of Signup.handleSubmit: navigate('/')
SignupUserFulfilled(i, u, tok) ==
  /\ i \in DOMAIN inflight
  /\ inflight[i].kind = "signupUser"
  /\ signupUser_fulfilled(u, tok)
  /\ Mount("/", Remove(inflight, i))
  /\ last' = Last("signupUser.fulfilled", inflight[i])
  /\ UNCHANGED timers

\* -------------------------------------------------------------- the system
Slots == 1..(MaxInflight + 1)
LoginEmails == {EmailA, EmailNoAt, EmailEmpty}
LoginPasswords == {PwGood, PwShort, PwEmpty}

Next ==
  \/ RunEffects
  \/ \E to \in Routes : FollowLink(to)
  \/ \E url \in Routes : Reload(url)
  \/ \E to \in Routes : HistoryGo(to)
  \/ \E e \in EmailInputs : ForgotPassword_setEmail(e)
  \/ ForgotPassword_handleSubmit
  \/ ForgotPassword_EnterVerificationCode
  \/ ForgotPassword_UseDifferentEmail
  \/ ForgotPassword_ResendCode
  \/ \E keys \in KeystrokeRuns : VerifyOTP_handleOtpChange(keys)
  \/ \E text \in PasteInputs : VerifyOTP_handlePaste(text)
  \/ VerifyOTP_handleSubmit
  \/ VerifyOTP_handleResend
  \/ \E pair \in PasswordPairs : ResetPassword_setPasswords(pair)
  \/ ResetPassword_handleSubmit
  \/ ResetPassword_GoToLoginNow
  \/ ResetPassword_timeout
  \/ \E e \in LoginEmails, pw \in LoginPasswords : Login_handleSubmit(e, pw)
  \/ \E e \in LoginEmails, pw \in LoginPasswords, cpw \in LoginPasswords : Signup_handleSubmit(e, pw, cpw)
  \/ Logout
  \/ \E i \in Slots, m \in ServerMessages : Rejected(i, m)
  \/ \E i \in Slots : ForgotPasswordFulfilled(i)
  \/ \E i \in Slots : VerifyOTPFulfilled(i)
  \/ \E i \in Slots : ResetPasswordFulfilled(i)
  \/ \E i \in Slots, u \in Users : LoginUserFulfilled(i, u, "session")
  \/ \E i \in Slots, u \in Users : SignupUserFulfilled(i, u, "session")

Spec == Init /\ [][Next]_vars


\* ================================================================= claims
\* requests of one kind that are on their way
Outstanding(kind) == {i \in DOMAIN inflight : inflight[i].kind = kind}

\* C1: in every reachable state the token is non-null exactly when the step
\* is verified (resetStep = 'reset').
C1_TokenIffVerified == (resetToken # Null) <=> (resetStep = "reset")

\* position of a step in the order none < requested < verified
StepRank(step) ==
  CASE step = Null -> 0
    [] step = "verify" -> 1
    [] step = "reset" -> 2

\* the steps that end or restart a session: cancel (clearResetState), the
\* completed commit, logout, login and a page reload
EndsSession(op) ==
  op \in {"ForgotPassword.UseDifferentEmail", "ResetPassword.GoToLoginNow",
          "ResetPassword.timeout", "resetPassword.fulfilled", "logout",
          "loginUser.fulfilled", "Reload"}

\* C2: the step never moves backwards in the order none < requested <
\* verified, except in a transition that cancels or ends the session; a
\* fulfilled forgotPassword never takes it from verified back to requested.
C2_StepNeverMovesBack ==
  [][StepRank(resetStep') >= StepRank(resetStep) \/ EndsSession(last'.op)]_vars

\* C3: in every reachable state a step other than none comes with a
\* non-null, non-empty session email.
C3_EmailWheneverStep == resetStep # Null => Truthy(resetEmail)

\* C4: at any time at most one request to the identity service is
\* outstanding; a second call while the first is pending sends nothing.
C4_AtMostOneOutstanding == Len(inflight) <= 1

\* a resend button is on screen while the request-reset call it made is
\* still outstanding
C4_SecondCallHeldBack ==
  /\ Len(inflight) = 1
  /\ inflight[1].kind = "forgotPassword"
  /\ loading
  /\ CardShown \/ location = "/verify-otp"
  /\ last.op \in {"ForgotPassword.ResendCode", "VerifyOTP.handleResend"}

\* C5: no verify-otp request leaves unless the step is requested, and no
\* reset-password request leaves unless the step is verified.
C5_IllegalCallsSendNothing ==
  /\ \A i \in Outstanding("verifyOTP") : inflight[i].stepAt = "verify"
  /\ \A i \in Outstanding("resetPassword") : inflight[i].stepAt = "reset"

C7_RequestResetEmailValid ==
  \A i \in Outstanding("forgotPassword") :
    /\ Truthy(inflight[i].email)
    /\ Includes(inflight[i].email, "@")

\* C8: right after a requestReset for email e has succeeded, the step is
\* requested, the session email is e, loading is false, error is null and the
\* persisted reset-email key holds e.
C8_RequestSuccessState ==
  last.op = "forgotPassword.fulfilled" =>
    /\ resetStep = "verify"
    /\ resetEmail = last.req.email
    /\ ~loading
    /\ error = Null
    /\ localStorage["asaan_reset_email"] = last.req.email

C8_RequestSucceeded ==
  /\ last.op = "forgotPassword.fulfilled"
  /\ last.req.email = EmailA
  /\ last.req.stepAt = Null

\* C9: right after submitCode has succeeded from step requested, the step is
\* verified, the token is non-empty, loading is false, and both the email and
\* the token are present in durable storage.
C9_VerifySuccessPersisted ==
  (last.op = "verifyOTP.fulfilled" /\ last.req.stepAt = "verify") =>
    /\ resetStep = "reset"
    /\ TruthyTok(resetToken)
    /\ ~loading
    /\ Truthy(localStorage["asaan_reset_email"])
    /\ TruthyTok(localStorage["asaan_reset_token"])

\* C10: a code that is not exactly six digits is refused by handleSubmit: no
\* verify-otp request carries such a code, and the step, email and token of
\* the session and the outstanding requests are as they were before.
C10_BadCodeRefused ==
  /\ [](\A i \in Outstanding("verifyOTP") : SixDigits(inflight[i].otp))
  /\ [][(last'.op = "VerifyOTP.handleSubmit" /\ ~SixDigits(last'.req.otp))
          => /\ inflight' = inflight
             /\ UNCHANGED resetVars
             /\ last'.localError = "Please enter the complete 6-digit code"]_vars

C10_BadCodeSubmitted ==
  /\ last.op = "VerifyOTP.handleSubmit"
  /\ Len(last.req.otp) = 2
  /\ resetStep = "verify"

\* the two password fields as ResetPassword.handleSubmit must refuse them
BadPasswords(pw, cpw) == pw = <<>> \/ cpw = <<>> \/ Len(pw) < 6 \/ pw # cpw

\* C11: a submit of the new-password form with a field empty, a password
\* shorter than 6 characters or a confirmation that differs is refused with a
\* message: no reset-password request is sent, and the step, email and token of
\* the session are as they were before.
C11_BadPasswordRefused ==
  [][(last'.op = "ResetPassword.handleSubmit" /\ BadPasswords(rp_fields[1], rp_fields[2]))
       => /\ inflight' = inflight
          /\ UNCHANGED resetVars
          /\ last'.localError # ""]_vars

\* the form was submitted at step verified with a confirmation that differs
C11_MismatchSubmitted ==
  /\ last.op = "ResetPassword.handleSubmit"
  /\ last.localError = "Passwords do not match"
  /\ rp_fields = <<PwGood, PwOther>>
  /\ resetStep = "reset"

\* C12: right after a reset-password request sent at step verified has
\* succeeded, the session holds no token and no email, error is null, loading
\* is false and the step is back at the empty step.
C12_CommitSuccessState ==
  (last.op = "resetPassword.fulfilled" /\ last.req.stepAt = "reset") =>
    /\ resetToken = Null
    /\ resetEmail = NullStr
    /\ resetStep = Null
    /\ error = Null
    /\ ~loading

\* a commit that carried the token of a@b has succeeded
C12_CommitSucceeded ==
  /\ last.op = "resetPassword.fulfilled"
  /\ last.req.stepAt = "reset"
  /\ last.req.resetToken = TokenFor(EmailA)
  /\ last.req.newPassword = PwGood

\* the rejected cases of the three recovery thunks
RecoveryRejections ==
  {"forgotPassword.rejected", "verifyOTP.rejected", "resetPassword.rejected"}

\* C13: the step in which a recovery request is answered with a failure sets
\* error to the failure message (the service's, or the thunk's fallback), sets
\* loading to false and leaves the step, the email and the token as they were:
\* a failed verify keeps step requested, a failed commit keeps step verified
\* and the token.
C13_FailureFrame ==
  [][last'.op \in RecoveryRejections =>
       /\ UNCHANGED resetVars
       /\ ~loading'
       /\ error' # Null
       /\ \E m \in ServerMessages : error' = RejectValue(last'.req.kind, m)]_vars

\* a commit was refused by the service and the token is still there
C13_CommitFailed ==
  /\ last.op = "resetPassword.rejected"
  /\ resetStep = "reset"
  /\ resetToken = TokenFor(EmailA)
  /\ error = "server says no"

\* the steps that dispatch clearResetState()
Cancels ==
  {"ForgotPassword.UseDifferentEmail", "ResetPassword.GoToLoginNow",
   "ResetPassword.timeout"}

\* C14: right after a cancel (clearResetState), from whatever state, the
\* session is in its initial empty state: email null, step none, token null
\* and error null.
C14_CancelEmptiesSession ==
  last.op \in Cancels =>
    /\ resetEmail = NullStr
    /\ resetStep = Null
    /\ resetToken = Null
    /\ error = Null

\* C15: right after a successful commit and right after a cancel, localStorage
\* holds neither the reset-email key nor the reset-token key.
C15_StorageCleared ==
  (last.op \in Cancels \/ last.op = "resetPassword.fulfilled") =>
    /\ localStorage["asaan_reset_email"] = AbsentValue("asaan_reset_email")
    /\ localStorage["asaan_reset_token"] = AbsentValue("asaan_reset_token")

\* "Use Different Email" was pressed on the card shown for a@b
C15_Cancelled ==
  /\ last.op = "ForgotPassword.UseDifferentEmail"
  /\ fp_email = EmailA
  /\ location = "/forgot-password"

\* C16: right after a page reload the step follows localStorage: a persisted
\* token gives step verified ('reset'), a persisted email without a token
\* gives step requested ('verify'), neither gives step none.
C16_StepRehydrated ==
  last.op = "Reload" =>
    resetStep =
      IF TruthyTok(localStorage["asaan_reset_token"]) THEN "reset"
      ELSE IF Truthy(localStorage["asaan_reset_email"]) THEN "verify"
      ELSE Null

\* C17: a page reload leaves the session email and the session token as they
\* were before the reload.
C17_ReloadRoundTrip ==
  [][last'.op = "Reload" =>
       /\ resetEmail' = resetEmail
       /\ resetToken' = resetToken]_vars

\* the recovery screen a step maps to
ScreenFor(step) ==
  CASE step = Null -> "/forgot-password"
    [] step = "verify" -> "/verify-otp"
    [] step = "reset" -> "/reset-password"

RecoveryScreens == {"/forgot-password", "/verify-otp", "/reset-password"}

\* C18: once the effects of a mounted recovery screen have run and asked for
\* no redirect, the screen is the one the step maps to: the request screen for
\* step none, the verify screen for requested, the new-password screen for
\* verified; the request form is not shown at step verified.
C18_ScreenFollowsStep ==
  (Settled /\ location \in RecoveryScreens /\ ~rp_success) =>
    location = ScreenFor(resetStep)

\* the two controls that resend the code
Resends == {"ForgotPassword.ResendCode", "VerifyOTP.handleResend"}

\* C19: a resend sends a request only at step requested and for the session's
\* email; the answer to such a request, success or failure, leaves the step at
\* requested and the session email as it was.
C19_ResendKeepsStepAndEmail ==
  /\ [][(last'.op \in Resends /\ inflight' # inflight) =>
          /\ resetStep = "verify"
          /\ last'.req.email = resetEmail]_vars
  /\ [][(last'.op \in {"forgotPassword.fulfilled", "forgotPassword.rejected"}
           /\ last'.req.stepAt = "verify" /\ resetStep = "verify") =>
          /\ resetStep' = "verify"
          /\ resetEmail' = resetEmail]_vars

\* C20: while the step is not none, no step replaces a non-null session email
\* by a different email; the email goes away only by being cleared.
C20_EmailImmutable ==
  [][(resetStep # Null /\ Truthy(resetEmail) /\ resetEmail' # resetEmail) =>
       resetEmail' = NullStr]_vars

\* C21: loading is true in every state in which a request to the identity
\* service is outstanding, whichever thunk sent it: no answer sets loading to
\* false while another request is still on its way.
C21_LoadingWhileOutstanding == Len(inflight) > 0 => loading

\* the login screen is shown while a forgot-password request is outstanding
C21_LoginWaitsForRecoveryCall ==
  /\ Len(inflight) = 1
  /\ inflight[1].kind = "forgotPassword"
  /\ location = "/login"
  /\ ~effectsPending
  /\ loading

\* C22: an answer that arrives after the session has moved on is applied all
\* the same: a fulfilled forgotPassword sets step requested and the email of
\* its request, a fulfilled verifyOTP sets step verified and a token and
\* leaves the email, null included, as it is.
C22_StaleAnswerApplied ==
  /\ [][(last'.op = "forgotPassword.fulfilled" /\ resetStep # last'.req.stepAt) =>
          /\ resetStep' = "verify"
          /\ resetEmail' = last'.req.email]_vars
  /\ [][(last'.op = "verifyOTP.fulfilled"
           /\ (resetStep # last'.req.stepAt \/ resetEmail # last'.req.email)) =>
          /\ resetStep' = "reset"
          /\ TruthyTok(resetToken')
          /\ resetEmail' = resetEmail]_vars

\* a code sent at step requested was accepted after the session was cancelled
C22_VerifiedAfterCancel ==
  /\ last.op = "verifyOTP.fulfilled"
  /\ last.req.stepAt = "verify"
  /\ Truthy(last.req.email)
  /\ resetEmail = NullStr
  /\ resetStep = "reset"
  /\ TruthyTok(resetToken)

\* C23: from the success card of the new-password screen the program itself
\* (an effect, the timer, the card's button) navigates to /login only: between
\* the fulfilled commit and the arrival at /login the user is never redirected
\* to /forgot-password.
C23_NoDetourAfterCommit ==
  [][(location = "/reset-password" /\ rp_success /\ location' # location
        /\ last'.op \notin {"FollowLink", "Reload"}) =>
       location' = "/login"]_vars

\* C24: the completion timer of a finished attempt leaves a later attempt
\* alone: when it fires while a new session is under way, the email and the
\* step of that session are as they were.
C24_TimerSparesNewSession ==
  [][(last'.op = "ResetPassword.timeout" /\ resetStep # Null) =>
       UNCHANGED <<resetEmail, resetStep>>]_vars

\* C25: every reset-password request that carries a token carries the token
\* the service issued for the email of that same request: a token obtained
\* for one email is never sent with another email.
C25_TokenMatchesEmail ==
  \A i \in Outstanding("resetPassword") :
    TruthyTok(inflight[i].resetToken) =>
      inflight[i].resetToken = TokenFor(inflight[i].email)

\* a commit for c@d is on its way with the token issued for c@d
C25_CommitSent ==
  /\ Len(inflight) = 1
  /\ inflight[1].kind = "resetPassword"
  /\ inflight[1].email = EmailB
  /\ inflight[1].resetToken = TokenFor(EmailB)

RECURSIVE SettlesWithin(_, _)
\* following the redirects from loc in the current store state, a screen that
\* asks for no redirect is reached after at most n navigations
SettlesWithin(loc, n) ==
  \/ RedirectFrom(loc) = NoRedirect
  \/ n > 0 /\ SettlesWithin(RedirectFrom(loc), n - 1)

\* C26: in every reachable state the redirects settle: from each recovery
\* screen, following the screens' redirect effects reaches a screen that does
\* not redirect again (a chain longer than the number of routes is a cycle).
C26_RedirectsSettle ==
  \A loc \in RecoveryScreens : SettlesWithin(loc, Cardinality(Routes))

\* C27: pressing 'Use different email' on the verify screen at step requested
\* leads to /forgot-password in a state in which the request form is shown
\* and the screen does not redirect back to /verify-otp.
C27_UseDifferentEmailShowsForm ==
  [][(location = "/verify-otp" /\ resetStep = "verify"
        /\ last'.op = "FollowLink" /\ location' = "/forgot-password") =>
       resetStep' # "verify"]_vars

\* C28: whenever localStorage holds the reset-email key, its value is the
\* session email; no persisted reset email differs from the session email or
\* outlives a session whose email is null.
C28_PersistedEmailIsSessionEmail ==
  localStorage["asaan_reset_email"] # AbsentValue("asaan_reset_email") =>
    localStorage["asaan_reset_email"] = resetEmail

\* ------------------------------------------- any content of the auth keys
\* what the three auth keys of localStorage can hold when the page is loaded,
\* a value of asaan_user that JSON.parse rejects included
StoredContents ==
  { [EmptyStorage EXCEPT !["asaan_auth"] = a, !["asaan_user"] = u,
                         !["asaan_token"] = t] :
      a \in {Null, "true"},
      u \in {Null, JsonOf("u1"), "{not json"},
      t \in {Null, "session"} }

\* the store built over any such content
InitStorage ==
  \E ls \in StoredContents :
    /\ localStorage = ls
    /\ isAuthenticated = LoadedIsAuthenticated(ls)
    /\ user = LoadedUser(ls)
    /\ token = LoadedToken(ls)
    /\ loading = FALSE
    /\ error = Null
    /\ isLoading = FALSE
    /\ resetEmail = InitialResetEmail(ls)
    /\ resetStep = Null
    /\ resetToken = InitialResetToken(ls)
    /\ location \in Routes
    /\ effectsPending = TRUE
    /\ fp_email = <<>>
    /\ otp = EmptyOtp
    /\ rp_fields = <<PwEmpty, PwEmpty>>
    /\ rp_success = FALSE
    /\ inflight = <<>>
    /\ timers = 0
    /\ last = Last("init", NoRequest)

SpecStorage == InitStorage /\ [][Next]_vars

\* C29: in every reachable state of the store, whatever the auth keys held
\* when the page was loaded, isAuthenticated implies a non-null user.
C29_AuthenticatedHasUser == isAuthenticated => user # Null

====
